---- MODULE Spec2Model ----
(***************************************************************************)
(* The scoped resource owners of src/utils/Scoped.h as a state machine.    *)
(*                                                                         *)
(* A behaviour follows the wrappers of one class (cls): C++'s static typing *)
(* keeps a raw value of one resource type away from the wrappers of        *)
(* another, so the classes evolve side by side.  Resources are             *)
(* allocation instances 1..NumRes.  An instance is never handed out twice, *)
(* but its address may be: a new instance can take the address of one that *)
(* is gone, and a stale pointer to the old one is then a pointer to it.    *)
(* Every call of a release primitive (free, delete, CloseHandle, Release,  *)
(* DeleteObject, DeleteDC) is recorded with its argument, the null         *)
(* sentinel included, in the event list of the operation that made it.     *)
(*                                                                         *)
(* The guards (ScopedCritSec, ScopedHdcSelect, ScopedCom, ScopedOle,       *)
(* ScopedGdiPlus) have a specification of their own, GuardSpec: they are   *)
(* automatic objects, so each thread keeps its live guards as a stack      *)
(* (scope) and a scope exit destructs the one constructed last.            *)
(***************************************************************************)
EXTENDS Integers, Sequences, FiniteSets, TLC

\* ---- bounds of the model
NumRes == 3
NumWrappers == 2
MaxOps == 5
NumThreads == 2
MaxDepth == 3
MaxGuardOps == 6
MaxDrawOps == 4

\* ---- program constants
Null == 0
INVALID_HANDLE_VALUE == -1

Res == 1..NumRes
Wrappers == 1..NumWrappers
Chars == {"a", "b"}

Classes == {"ScopedMem", "ScopedPtr", "AutoFreeStr", "ScopedHandle", "ScopedComPtr",
            "ScopedComQIPtr", "ScopedGdiObj", "ScopedHDC"}

\* the guards: they hold no resource to hand back, they bracket a scope
GuardKinds == {"ScopedCritSec", "ScopedHdcSelect", "ScopedCom", "ScopedOle", "ScopedGdiPlus"}

Threads == 1..NumThreads
CritSecs == {"csA", "csB"}
DCs == {"hdc1", "hdc2"}
Subsystems == {"Com", "Ole", "GdiPlus"}

VARIABLES
    cls,      \* the wrapper class this behaviour follows
    w,        \* wrapper slot -> [kind, val]: the class and its one field
    mem,      \* [heap, released, refs, data]: the resources
    last,     \* the last operation: its arguments, result and events
    crashed,  \* the process has terminated (CrashIf, or undefined behaviour)
    addrs,    \* the field addresses (operator&) the caller keeps: live, those of the
              \* field of the wrapper in a slot; stale, those of a wrapper that is
              \* destructed, with the wrappers constructed since
    scope,    \* thread -> its live guard objects, in the order of construction
    waiting,  \* thread -> the critical section its EnterCriticalSection waits for
    locks,    \* critical section -> [owner, count, enters, leaves]
    selected, \* device context -> the object selected into it
    subsys    \* subsystem -> the calls made: [startups, shutdowns, hooks, unhooks]

guards == <<scope, waiting, locks, selected, subsys>>

vars == <<cls, w, mem, last, crashed, addrs, scope, waiting, locks, selected, subsys>>

Dead == [kind |-> "none", val |-> Null]
Live(i) == w[i].kind # "none"

Ev(p, a) == [prim |-> p, arg |-> a]

Op(name, i, arg, old, ret, retB, ev, argData) ==
    [n |-> last.n + 1, op |-> name, i |-> i, arg |-> arg, old |-> old, ret |-> ret,
     retB |-> retB, ev |-> ev, argData |-> argData]

\* ---- the resources and the primitives the wrappers call

\* the next allocation instance, if the bound leaves one
FreshSet(M) ==
    LET un == {r \in Res : M.heap[r] = "unalloc"}
    IN  IF un = {} THEN {} ELSE {CHOOSE r \in un : \A q \in un : r <= q}

LiveSet(M) == {r \in Res : M.heap[r] = "live"}

\* the caller acquires v (malloc, new, CreateFile, ...) just before handing it over
Acq(M, v, c) ==
    IF v \in Res /\ M.heap[v] = "unalloc"
    THEN [M EXCEPT !.heap[v] = "live", !.refs[v] = 1, !.data[v] = c]
    ELSE M

\* the text of a buffer the caller has just acquired (only the string owner's
\* buffers carry text; CallerMutate changes it)
FreshText == IF cls = "AutoFreeStr" THEN "a" ELSE ""

\* the effect of a release primitive called with v by a wrapper: nothing on a
\* sentinel; otherwise one reference less, the resource gone with its last one
Rel(M, v) ==
    IF v \notin Res THEN M
    ELSE [M EXCEPT !.released[v] = @ + 1,
                   !.refs[v] = IF @ > 0 THEN @ - 1 ELSE @,
                   !.heap[v] = IF M.refs[v] = 1 THEN "released" ELSE @]

\* a primitive reaching a resource that is already gone is undefined behaviour
Dangling(M, v) == v \in Res /\ M.heap[v] # "live"

\* the outcomes of a call on v: it returns, or (undefined behaviour) it may crash
Outcomes(M, v) == IF Dangling(M, v) THEN BOOLEAN ELSE {FALSE}

\* the instances that are gone: their addresses are the allocator's again
Gone(M) == {r \in Res : M.heap[r] = "released"}

\* the wrappers W with every pointer to r read as a pointer to n
Repoint(W, r, n) ==
    [i \in Wrappers |-> IF W[i].val = r THEN [W[i] EXCEPT !.val = n] ELSE W[i]]

\* the wrappers once v is allocated: the allocator (malloc, new, the handle
\* table, ...) may give v the address of an instance that is gone, and a
\* wrapper that still holds the stale pointer then holds a pointer to v
Reuse(W, M, v) ==
    IF v \in Res /\ M.heap[v] = "unalloc"
    THEN {W} \cup {Repoint(W, r, v) : r \in Gone(M)}
    ELSE {W}

\* the caller hands v to an operation: a v it has just acquired comes into
\* being, at a new address or at that of an instance that is gone
Handed(v) == {[m |-> Acq(mem, v, FreshText), w |-> W] : W \in Reuse(w, mem, v)}

\* a behaviour is a program of at most MaxOps operations
Running == ~crashed /\ last.n < MaxOps

FreeSlot == {i \in Wrappers : ~Live(i) /\ \A j \in Wrappers : j < i => Live(j)}

Holders(r) == {i \in Wrappers : Live(i) /\ w[i].val = r}

\* ---- Init

\* the object a device context has selected when it is created
StockObject == NumRes + 1

\* no guard constructed yet: every critical section unowned, every device
\* context with its stock object, no subsystem started
GuardIdle ==
    /\ scope = [t \in Threads |-> <<>>]
    /\ waiting = [t \in Threads |-> "none"]
    /\ locks = [c \in CritSecs |-> [owner |-> 0, count |-> 0, enters |-> 0, leaves |-> 0]]
    /\ selected = [d \in DCs |-> StockObject]
    /\ subsys = [s \in Subsystems |-> [startups |-> 0, shutdowns |-> 0,
                                        hooks |-> 0, unhooks |-> 0]]

\* no wrapper constructed yet, nothing acquired
NoWrapper ==
    /\ w = [i \in Wrappers |-> Dead]
    /\ mem = [heap |-> [r \in Res |-> "unalloc"],
              released |-> [r \in Res |-> 0],
              refs |-> [r \in Res |-> 0],
              data |-> [r \in Res |-> ""]]
    /\ last = [n |-> 0, op |-> "init", i |-> 0, arg |-> Null, old |-> Null, ret |-> <<>>,
               retB |-> <<>>, ev |-> <<>>, argData |-> ""]
    /\ crashed = FALSE
    /\ addrs = [live |-> {}, stale |-> {}]

Init ==
    /\ cls \in Classes
    /\ GuardIdle
    /\ NoWrapper

\* ---- ScopedMem<T> (and AutoFreeStr<T>, which inherits its members)

MemKinds == {"ScopedMem", "AutoFreeStr"}

\* ScopedMem() : ptr(nullptr) {}
ScopedMem_ctor0(i) ==
    /\ Running /\ cls = "ScopedMem" /\ i \in FreeSlot
    /\ w' = [w EXCEPT ![i] = [kind |-> "ScopedMem", val |-> Null]]
    /\ last' = Op("ctor0", i, Null, Null, <<>>, <<>>, <<Ev("store", Null)>>, "")
    /\ UNCHANGED <<cls, guards, addrs, mem, crashed>>

\* explicit ScopedMem(T* ptr) : ptr(ptr) {}
ScopedMem_ctor(i, ptr) ==
    /\ Running /\ cls = "ScopedMem" /\ i \in FreeSlot
    /\ \E s \in Handed(ptr) :
         /\ w' = [s.w EXCEPT ![i] = [kind |-> "ScopedMem", val |-> ptr]]
         /\ mem' = s.m
    /\ last' = Op("ctor", i, ptr, Null, <<>>, <<>>, <<Ev("store", ptr)>>, "")
    /\ UNCHANGED <<cls, guards, addrs, crashed>>

\* a destructor that does not free
ScopedMem_dtor_NoFree(i) ==
    /\ Running /\ w[i].kind \in MemKinds
    /\ w' = [w EXCEPT ![i] = Dead]
    /\ last' = Op("dtor", i, Null, w[i].val, <<>>, <<>>, <<>>, "")
    /\ UNCHANGED <<cls, guards, addrs, mem, crashed>>

\* ~ScopedMem() { free(ptr); }
ScopedMem_dtor(i) ==
    /\ Running /\ w[i].kind \in MemKinds
    /\ mem' = Rel(mem, w[i].val)
    /\ crashed' \in Outcomes(mem, w[i].val)
    /\ w' = [w EXCEPT ![i] = Dead]
    /\ last' = Op("dtor", i, Null, w[i].val, <<>>, <<>>, <<Ev("free", w[i].val)>>, "")
    /\ UNCHANGED <<cls, guards, addrs>>

\* a Set that stores first and frees afterwards: ptr = newPtr; free(ptr);
ScopedMem_Set_StoreFirst(i, newPtr) ==
    /\ Running /\ w[i].kind \in MemKinds
    /\ mem' = Rel(Acq(mem, newPtr, FreshText), newPtr)
    /\ crashed' = FALSE
    /\ w' = [w EXCEPT ![i].val = newPtr]
    /\ last' = Op("Set", i, newPtr, w[i].val, <<>>, <<>>,
                  <<Ev("store", newPtr), Ev("free", newPtr)>>, "")
    /\ UNCHANGED <<cls, guards, addrs>>

\* void Set(T* newPtr) { free(ptr); ptr = newPtr; }
ScopedMem_Set(i, newPtr) ==
    /\ Running /\ w[i].kind \in MemKinds
    /\ \E s \in Handed(newPtr) :
         LET old == s.w[i].val
         IN  /\ mem' = Rel(s.m, old)
             /\ crashed' \in Outcomes(s.m, old)
             /\ IF crashed'
                THEN /\ w' = s.w
                     /\ last' = Op("Set", i, newPtr, old, <<>>, <<>>,
                                   <<Ev("free", old)>>, "")
                ELSE /\ w' = [s.w EXCEPT ![i].val = newPtr]
                     /\ last' = Op("Set", i, newPtr, old, <<>>, <<>>,
                                   <<Ev("free", old), Ev("store", newPtr)>>, "")
    /\ UNCHANGED <<cls, guards, addrs>>

\* a Get that hands the buffer over: it clears the field
ScopedMem_Get_Clears(i) ==
    /\ Running /\ w[i].kind \in MemKinds
    /\ w' = [w EXCEPT ![i].val = Null]
    /\ last' = Op("Get", i, Null, w[i].val, <<w[i].val>>, <<>>, <<>>, "")
    /\ UNCHANGED <<cls, guards, addrs, mem, crashed>>

\* T* Get() const { return ptr; }
ScopedMem_Get(i) ==
    /\ Running /\ w[i].kind \in MemKinds
    /\ last' = Op("Get", i, Null, w[i].val, <<w[i].val>>, <<>>, <<>>, "")
    /\ UNCHANGED <<cls, guards, addrs, w, mem, crashed>>

\* a StealData that forgets to clear the field
ScopedMem_StealData_NoClear(i) ==
    /\ Running /\ w[i].kind \in MemKinds
    /\ last' = Op("StealData", i, Null, w[i].val, <<w[i].val>>, <<>>, <<>>, "")
    /\ UNCHANGED <<cls, guards, addrs, w, mem, crashed>>

\* T* StealData() { T* tmp = ptr; ptr = nullptr; return tmp; }
ScopedMem_StealData(i) ==
    /\ Running /\ w[i].kind \in MemKinds
    /\ w' = [w EXCEPT ![i].val = Null]
    /\ last' = Op("StealData", i, Null, w[i].val, <<w[i].val>>, <<>>,
                  <<Ev("store", Null)>>, "")
    /\ UNCHANGED <<cls, guards, addrs, mem, crashed>>

\* ---- ScopedPtr<T>

\* ScopedPtr() : obj(nullptr) {}
ScopedPtr_ctor0(i) ==
    /\ Running /\ cls = "ScopedPtr" /\ i \in FreeSlot
    /\ w' = [w EXCEPT ![i] = [kind |-> "ScopedPtr", val |-> Null]]
    /\ last' = Op("ctor0", i, Null, Null, <<>>, <<>>, <<Ev("store", Null)>>, "")
    /\ UNCHANGED <<cls, guards, addrs, mem, crashed>>

\* explicit ScopedPtr(T* obj) : obj(obj) {}
ScopedPtr_ctor(i, obj) ==
    /\ Running /\ cls = "ScopedPtr" /\ i \in FreeSlot
    /\ \E s \in Handed(obj) :
         /\ w' = [s.w EXCEPT ![i] = [kind |-> "ScopedPtr", val |-> obj]]
         /\ mem' = s.m
    /\ last' = Op("ctor", i, obj, Null, <<>>, <<>>, <<Ev("store", obj)>>, "")
    /\ UNCHANGED <<cls, guards, addrs, crashed>>

\* a delete-expression: no effect on a null operand, else destroys the object
DeleteEv(obj) == IF obj = Null THEN <<>> ELSE <<Ev("delete", obj)>>

\* ~ScopedPtr() { delete obj; }
ScopedPtr_dtor(i) ==
    /\ Running /\ w[i].kind = "ScopedPtr"
    /\ mem' = Rel(mem, w[i].val)
    /\ crashed' \in Outcomes(mem, w[i].val)
    /\ w' = [w EXCEPT ![i] = Dead]
    /\ last' = Op("dtor", i, Null, w[i].val, <<>>, <<>>, DeleteEv(w[i].val), "")
    /\ UNCHANGED <<cls, guards, addrs>>

\* T* Detach() { T* tmp = obj; obj = nullptr; return tmp; }
ScopedPtr_Detach(i) ==
    /\ Running /\ w[i].kind = "ScopedPtr"
    /\ w' = [w EXCEPT ![i].val = Null]
    /\ last' = Op("Detach", i, Null, w[i].val, <<w[i].val>>, <<>>,
                  <<Ev("store", Null)>>, "")
    /\ UNCHANGED <<cls, guards, addrs, mem, crashed>>

\* operator T*() const { return obj; }
ScopedPtr_conv(i) ==
    /\ Running /\ w[i].kind = "ScopedPtr"
    /\ last' = Op("conv", i, Null, w[i].val, <<w[i].val>>, <<>>, <<>>, "")
    /\ UNCHANGED <<cls, guards, addrs, w, mem, crashed>>

\* T* operator=(T* newObj) { delete obj; return (obj = newObj); }
ScopedPtr_assign(i, newObj) ==
    /\ Running /\ w[i].kind = "ScopedPtr"
    /\ \E s \in Handed(newObj) :
         LET old == s.w[i].val
         IN  /\ mem' = Rel(s.m, old)
             /\ crashed' \in Outcomes(s.m, old)
             /\ IF crashed'
                THEN /\ w' = s.w
                     /\ last' = Op("assign", i, newObj, old, <<>>, <<>>, DeleteEv(old), "")
                ELSE /\ w' = [s.w EXCEPT ![i].val = newObj]
                     /\ last' = Op("assign", i, newObj, old, <<newObj>>, <<>>,
                                   DeleteEv(old) \o <<Ev("store", newObj)>>, "")
    /\ UNCHANGED <<cls, guards, addrs>>

\* ---- AutoFreeStr<T> : public ScopedMem<T>

\* AutoFreeStr() { this->ptr = nullptr; }
AutoFreeStr_ctor0(i) ==
    /\ Running /\ cls = "AutoFreeStr" /\ i \in FreeSlot
    /\ w' = [w EXCEPT ![i] = [kind |-> "AutoFreeStr", val |-> Null]]
    /\ last' = Op("ctor0", i, Null, Null, <<>>, <<>>, <<Ev("store", Null)>>, "")
    /\ UNCHANGED <<cls, guards, addrs, mem, crashed>>

\* explicit AutoFreeStr(T* ptr) { this->ptr = ptr; }
AutoFreeStr_ctor(i, ptr) ==
    /\ Running /\ cls = "AutoFreeStr" /\ i \in FreeSlot
    /\ \E s \in Handed(ptr) :
         /\ w' = [s.w EXCEPT ![i] = [kind |-> "AutoFreeStr", val |-> ptr]]
         /\ mem' = s.m
    /\ last' = Op("ctor", i, ptr, Null, <<>>, <<>>, <<Ev("store", ptr)>>, "")
    /\ UNCHANGED <<cls, guards, addrs, crashed>>

\* str::Dup(s), s non-null: a new buffer holding what is read from s.  Reading
\* a buffer that is gone is undefined: any text, or a crash.
Dup(M, W, s) ==
    {[m |-> Acq(M, n, d), w |-> V, p |-> n, crash |-> k] :
        n \in FreshSet(M),
        V \in UNION {Reuse(W, M, q) : q \in FreshSet(M)},
        d \in (IF Dangling(M, s) THEN Chars ELSE {M.data[s]}),
        k \in Outcomes(M, s)}

\* void SetCopy(const T* newPtr) {
\*     free(this->ptr); this->ptr = nullptr;
\*     if (newPtr) { this->ptr = str::Dup(newPtr); } }
AutoFreeStr_SetCopy(i, newPtr) ==
    /\ Running /\ w[i].kind = "AutoFreeStr"
    /\ \E s \in Handed(newPtr) :
         LET old == s.w[i].val
             M1  == Rel(s.m, old)
             pre == <<Ev("free", old), Ev("store", Null)>>
             txt == IF newPtr = Null THEN "" ELSE s.m.data[newPtr]
         IN  \E k \in Outcomes(s.m, old) :
               IF k THEN
                  /\ crashed' = TRUE /\ mem' = M1 /\ w' = s.w
                  /\ last' = Op("SetCopy", i, newPtr, old, <<>>, <<>>,
                                <<Ev("free", old)>>, txt)
               ELSE IF newPtr = Null THEN
                  /\ crashed' = FALSE /\ mem' = M1
                  /\ w' = [s.w EXCEPT ![i].val = Null]
                  /\ last' = Op("SetCopy", i, newPtr, old, <<>>, <<>>, pre, txt)
               ELSE \E d \in Dup(M1, [s.w EXCEPT ![i].val = Null], newPtr) :
                  /\ crashed' = d.crash
                  /\ mem' = IF d.crash THEN M1 ELSE d.m
                  /\ w' = IF d.crash THEN [s.w EXCEPT ![i].val = Null]
                          ELSE [d.w EXCEPT ![i].val = d.p]
                  /\ last' = Op("SetCopy", i, newPtr, old, <<>>, <<>>,
                                pre \o <<Ev("str::Dup", newPtr)>>
                                    \o (IF d.crash THEN <<>> ELSE <<Ev("store", d.p)>>),
                                txt)
    /\ UNCHANGED <<cls, guards, addrs>>

\* the owner of a borrowed buffer: live and in no wrapper
CallerOwned(r) == r \in LiveSet(mem) /\ Holders(r) = {}

\* the caller frees a buffer of its own (the original handed to SetCopy, or a
\* buffer it took with StealData)
CallerFree(r) ==
    /\ Running /\ cls \in MemKinds /\ CallerOwned(r)
    /\ mem' = [mem EXCEPT !.heap[r] = "released", !.refs[r] = 0]
    /\ last' = Op("CallerFree", 0, r, Null, <<>>, <<>>, <<>>, mem.data[r])
    /\ UNCHANGED <<cls, guards, addrs, w, crashed>>

\* the caller overwrites the text of a buffer of its own
CallerMutate(r, c) ==
    /\ Running /\ cls = "AutoFreeStr" /\ CallerOwned(r) /\ c # mem.data[r]
    /\ mem' = [mem EXCEPT !.data[r] = c]
    /\ last' = Op("CallerMutate", 0, r, Null, <<>>, <<>>, <<>>, mem.data[r])
    /\ UNCHANGED <<cls, guards, addrs, w, crashed>>

\* ---- ScopedHandle

\* explicit ScopedHandle(HANDLE handle) : handle(handle) {}
ScopedHandle_ctor(i, handle) ==
    /\ Running /\ cls = "ScopedHandle" /\ i \in FreeSlot
    /\ \E s \in Handed(handle) :
         /\ w' = [s.w EXCEPT ![i] = [kind |-> "ScopedHandle", val |-> handle]]
         /\ mem' = s.m
    /\ last' = Op("ctor", i, handle, Null, <<>>, <<>>, <<Ev("store", handle)>>, "")
    /\ UNCHANGED <<cls, guards, addrs, crashed>>

\* ~ScopedHandle() { CloseHandle(handle); }
ScopedHandle_dtor(i) ==
    /\ Running /\ w[i].kind = "ScopedHandle"
    /\ mem' = Rel(mem, w[i].val)
    /\ crashed' \in Outcomes(mem, w[i].val)
    /\ w' = [w EXCEPT ![i] = Dead]
    /\ last' = Op("dtor", i, Null, w[i].val, <<>>, <<>>,
                  <<Ev("CloseHandle", w[i].val)>>, "")
    /\ UNCHANGED <<cls, guards, addrs>>

\* an IsValid that tests for NULL alone
ScopedHandle_IsValid_NullOnly(i) ==
    /\ Running /\ w[i].kind = "ScopedHandle"
    /\ last' = Op("IsValid", i, Null, w[i].val, <<>>, <<w[i].val # Null>>, <<>>, "")
    /\ UNCHANGED <<cls, guards, addrs, w, mem, crashed>>

\* bool IsValid() const { return handle != NULL && handle != INVALID_HANDLE_VALUE; }
ScopedHandle_IsValid(i) ==
    /\ Running /\ w[i].kind = "ScopedHandle"
    /\ last' = Op("IsValid", i, Null, w[i].val, <<>>,
                  <<w[i].val # Null /\ w[i].val # INVALID_HANDLE_VALUE>>, <<>>, "")
    /\ UNCHANGED <<cls, guards, addrs, w, mem, crashed>>

\* ---- ScopedComPtr<T>

\* the addresses A the caller keeps once a wrapper is constructed in slot i:
\* the new object may have been given the storage of a wrapper that is gone,
\* so an address that dangles may from now on be the address of its field
Built(A, i) == [A EXCEPT !.stale = {[d EXCEPT !.since = @ \cup {i}] : d \in @}]

\* ScopedComPtr() : ptr(nullptr) {}
ScopedComPtr_ctor0(i) ==
    /\ Running /\ cls = "ScopedComPtr" /\ i \in FreeSlot
    /\ w' = [w EXCEPT ![i] = [kind |-> "ScopedComPtr", val |-> Null]]
    /\ last' = Op("ctor0", i, Null, Null, <<>>, <<>>, <<Ev("store", Null)>>, "")
    /\ addrs' = Built(addrs, i)
    /\ UNCHANGED <<cls, guards, mem, crashed>>

\* explicit ScopedComPtr(T* ptr) : ptr(ptr) {}
ScopedComPtr_ctor(i, ptr) ==
    /\ Running /\ cls = "ScopedComPtr" /\ i \in FreeSlot
    /\ \E s \in Handed(ptr) :
         /\ w' = [s.w EXCEPT ![i] = [kind |-> "ScopedComPtr", val |-> ptr]]
         /\ mem' = s.m
    /\ last' = Op("ctor", i, ptr, Null, <<>>, <<>>, <<Ev("store", ptr)>>, "")
    /\ addrs' = Built(addrs, i)
    /\ UNCHANGED <<cls, guards, crashed>>

\* if (ptr) ptr->Release();
ReleaseEv(ptr) == IF ptr = Null THEN <<>> ELSE <<Ev("Release", ptr)>>

\* the addresses A the caller keeps once the wrapper in slot i is destructed:
\* an address of its field dangles from then on, and the wrapper is no longer
\* one that may have the storage of an address that dangled before
Dangle(A, i) ==
    [live  |-> A.live \ {i},
     stale |-> {[d EXCEPT !.since = @ \ {i}] : d \in A.stale} \cup
               (IF i \in A.live THEN {[slot |-> i, since |-> {}]} ELSE {})]

\* a destructor that calls ptr->Release() without testing ptr: a call through
\* a null pointer ends the program
ComDtor_Unguarded(i, kind) ==
    /\ Running /\ w[i].kind = kind
    /\ mem' = Rel(mem, w[i].val)
    /\ crashed' \in (IF w[i].val = Null THEN {TRUE} ELSE Outcomes(mem, w[i].val))
    /\ w' = [w EXCEPT ![i] = Dead]
    /\ last' = Op("dtor", i, Null, w[i].val, <<>>, <<>>, <<Ev("Release", w[i].val)>>, "")
    /\ addrs' = Dangle(addrs, i)
    /\ UNCHANGED <<cls, guards>>

\* ~ScopedComPtr() { if (ptr) ptr->Release(); }
ComDtor(i, kind) ==
    /\ Running /\ w[i].kind = kind
    /\ mem' = Rel(mem, w[i].val)
    /\ crashed' \in Outcomes(mem, w[i].val)
    /\ w' = [w EXCEPT ![i] = Dead]
    /\ last' = Op("dtor", i, Null, w[i].val, <<>>, <<>>, ReleaseEv(w[i].val), "")
    /\ addrs' = Dangle(addrs, i)
    /\ UNCHANGED <<cls, guards>>

ScopedComPtr_dtor(i) == ComDtor(i, "ScopedComPtr")

\* CrashIf(cond): an assertion; when cond holds it ends the program in the
\* builds that enable it and does nothing in the others
CrashIf(cond) == IF cond THEN BOOLEAN ELSE {FALSE}

\* a Create without the test of ptr: the instance is stored over what is held
ComCreate_NoGuard(i, kind, ok) ==
    /\ Running /\ w[i].kind = kind
    /\ crashed' = FALSE
    /\ IF ok
       THEN \E n \in FreshSet(mem) :
              /\ mem' = Acq(mem, n, FreshText)
              /\ w' = [w EXCEPT ![i].val = n]
              /\ last' = Op("Create", i, Null, w[i].val, <<>>, <<TRUE>>,
                            <<Ev("CoCreateInstance", n), Ev("store", n)>>, "")
       ELSE /\ mem' = mem
            /\ w' = [w EXCEPT ![i].val = Null]
            /\ last' = Op("Create", i, Null, w[i].val, <<>>, <<FALSE>>,
                          <<Ev("CoCreateInstance", Null), Ev("store", Null)>>, "")
    /\ UNCHANGED <<cls, guards, addrs>>

\* bool Create(const CLSID clsid) {
\*     CrashIf(ptr); if (ptr) return false;
\*     HRESULT hr = CoCreateInstance(clsid, nullptr, CLSCTX_ALL, IID_PPV_ARGS(&ptr));
\*     return SUCCEEDED(hr); }
\* CoCreateInstance stores the new instance (one reference) on success and
\* null on failure.
ComCreate(i, kind, ok) ==
    /\ Running /\ w[i].kind = kind
    /\ IF w[i].val # Null
       THEN /\ crashed' \in CrashIf(w[i].val # Null)
            /\ last' = Op("Create", i, Null, w[i].val, <<>>,
                          IF crashed' THEN <<>> ELSE <<FALSE>>,
                          <<Ev("CrashIf", w[i].val)>>, "")
            /\ UNCHANGED <<w, mem>>
       ELSE /\ crashed' = FALSE
            /\ IF ok
               THEN \E n \in FreshSet(mem) : \E s \in Handed(n) :
                      /\ mem' = s.m
                      /\ w' = [s.w EXCEPT ![i].val = n]
                      /\ last' = Op("Create", i, Null, Null, <<>>, <<TRUE>>,
                                    <<Ev("CoCreateInstance", n), Ev("store", n)>>, "")
               ELSE /\ mem' = mem
                    /\ w' = [w EXCEPT ![i].val = Null]
                    /\ last' = Op("Create", i, Null, Null, <<>>, <<FALSE>>,
                                  <<Ev("CoCreateInstance", Null), Ev("store", Null)>>, "")
    /\ UNCHANGED <<cls, guards, addrs>>

ScopedComPtr_Create(i, ok) == ComCreate(i, "ScopedComPtr", ok)

\* operator T*() const { return ptr; }
ScopedComPtr_conv(i) ==
    /\ Running /\ w[i].kind = "ScopedComPtr"
    /\ last' = Op("conv", i, Null, w[i].val, <<w[i].val>>, <<>>, <<>>, "")
    /\ UNCHANGED <<cls, guards, addrs, w, mem, crashed>>

\* T* operator=(T* newPtr) { if (ptr) ptr->Release(); return (ptr = newPtr); }
ComAssign(i, kind, newPtr) ==
    /\ Running /\ w[i].kind = kind
    /\ \E s \in Handed(newPtr) :
         LET old == s.w[i].val
         IN  /\ mem' = Rel(s.m, old)
             /\ crashed' \in Outcomes(s.m, old)
             /\ IF crashed'
                THEN /\ w' = s.w
                     /\ last' = Op("assign", i, newPtr, old, <<>>, <<>>, ReleaseEv(old), "")
                ELSE /\ w' = [s.w EXCEPT ![i].val = newPtr]
                     /\ last' = Op("assign", i, newPtr, old, <<newPtr>>, <<>>,
                                   ReleaseEv(old) \o <<Ev("store", newPtr)>>, "")
    /\ UNCHANGED <<cls, guards, addrs>>

ScopedComPtr_assign(i, newPtr) == ComAssign(i, "ScopedComPtr", newPtr)

\* ---- ScopedComQIPtr<T>

\* ScopedComQIPtr() : ptr(nullptr) {}
ScopedComQIPtr_ctor0(i) ==
    /\ Running /\ cls = "ScopedComQIPtr" /\ i \in FreeSlot
    /\ w' = [w EXCEPT ![i] = [kind |-> "ScopedComQIPtr", val |-> Null]]
    /\ last' = Op("ctor0", i, Null, Null, <<>>, <<>>, <<Ev("store", Null)>>, "")
    /\ addrs' = Built(addrs, i)
    /\ UNCHANGED <<cls, guards, mem, crashed>>

\* unk->QueryInterface(&ptr) on M: on success the object gets one more
\* reference and is stored; on failure null is stored.  A query on an object
\* that is gone is undefined: a crash, or either result with no reference taken.
QueryInterface(M, unk, ok) ==
    IF Dangling(M, unk)
    THEN {[m |-> M, p |-> q, crash |-> k, hr |-> (q # Null)] :
             q \in {Null, unk}, k \in BOOLEAN}
    ELSE IF ok
    THEN {[m |-> [M EXCEPT !.refs[unk] = @ + 1], p |-> unk, crash |-> FALSE, hr |-> TRUE]}
    ELSE {[m |-> M, p |-> Null, crash |-> FALSE, hr |-> FALSE]}

\* a constructor that stores the source pointer itself when the query fails
ScopedComQIPtr_ctor_KeepsUnk(i, unk, ok) ==
    /\ Running /\ cls = "ScopedComQIPtr" /\ i \in FreeSlot
    /\ \E q \in QueryInterface(Acq(mem, unk, FreshText), unk, ok) :
         /\ crashed' = q.crash
         /\ mem' = q.m
         /\ w' = [w EXCEPT ![i] = [kind |-> "ScopedComQIPtr", val |-> unk]]
         /\ last' = Op("ctorQI", i, unk, Null, <<>>, <<q.hr>>,
                       <<Ev("QueryInterface", unk), Ev("store", unk)>>, "")
    /\ addrs' = Built(addrs, i)
    /\ UNCHANGED <<cls, guards>>

\* a constructor that converts the pointer instead of querying it:
\* ptr = (T*)unk, which takes no reference
ScopedComQIPtr_ctor_Casts(i, unk, ok) ==
    /\ Running /\ cls = "ScopedComQIPtr" /\ i \in FreeSlot
    /\ crashed' = FALSE
    /\ mem' = Acq(mem, unk, FreshText)
    /\ w' = [w EXCEPT ![i] = [kind |-> "ScopedComQIPtr", val |-> IF ok THEN unk ELSE Null]]
    /\ last' = Op("ctorQI", i, unk, Null, <<>>, <<ok>>,
                  <<Ev("store", IF ok THEN unk ELSE Null)>>, "")
    /\ addrs' = Built(addrs, i)
    /\ UNCHANGED <<cls, guards>>

\* explicit ScopedComQIPtr(IUnknown* unk) {
\*     HRESULT hr = unk->QueryInterface(&ptr); if (FAILED(hr)) ptr = nullptr; }
ScopedComQIPtr_ctor(i, unk, ok) ==
    /\ Running /\ cls = "ScopedComQIPtr" /\ i \in FreeSlot
    /\ \E s \in Handed(unk) : \E q \in QueryInterface(s.m, unk, ok) :
         /\ crashed' = q.crash
         /\ mem' = q.m
         /\ w' = [s.w EXCEPT ![i] = [kind |-> "ScopedComQIPtr",
                                     val |-> IF q.hr THEN q.p ELSE Null]]
         /\ last' = Op("ctorQI", i, unk, Null, <<>>, <<q.hr>>,
                       <<Ev("QueryInterface", unk),
                         Ev("store", IF q.hr THEN q.p ELSE Null)>>, "")
    /\ addrs' = Built(addrs, i)
    /\ UNCHANGED <<cls, guards>>

\* ~ScopedComQIPtr() { if (ptr) ptr->Release(); }
ScopedComQIPtr_dtor(i) == ComDtor(i, "ScopedComQIPtr")

\* bool Create(const CLSID clsid): as ScopedComPtr::Create
ScopedComQIPtr_Create(i, ok) == ComCreate(i, "ScopedComQIPtr", ok)

\* T* operator=(IUnknown* newUnk) {
\*     if (ptr) ptr->Release();
\*     HRESULT hr = newUnk->QueryInterface(&ptr);
\*     if (FAILED(hr)) ptr = nullptr;
\*     return ptr; }
ScopedComQIPtr_assignQI(i, newUnk, ok) ==
    /\ Running /\ w[i].kind = "ScopedComQIPtr"
    /\ \E s \in Handed(newUnk) :
         LET old == s.w[i].val
             M1  == Rel(s.m, old)
         IN  \E k \in Outcomes(s.m, old) :
               IF k THEN
                  /\ crashed' = TRUE /\ mem' = M1 /\ w' = s.w
                  /\ last' = Op("assignQI", i, newUnk, old, <<>>, <<>>, ReleaseEv(old), "")
               ELSE \E q \in QueryInterface(M1, newUnk, ok) :
                  /\ crashed' = q.crash
                  /\ mem' = q.m
                  /\ w' = [s.w EXCEPT ![i].val = IF q.hr THEN q.p ELSE Null]
                  /\ last' = Op("assignQI", i, newUnk, old,
                                IF q.crash THEN <<>> ELSE <<IF q.hr THEN q.p ELSE Null>>,
                                <<q.hr>>,
                                ReleaseEv(old) \o
                                <<Ev("QueryInterface", newUnk),
                                  Ev("store", IF q.hr THEN q.p ELSE Null)>>, "")
    /\ UNCHANGED <<cls, guards, addrs>>

\* T* operator=(T* newPtr) { if (ptr) ptr->Release(); return (ptr = newPtr); }
ScopedComQIPtr_assign(i, newPtr) == ComAssign(i, "ScopedComQIPtr", newPtr)

\* ---- ScopedGdiObj<T>, ScopedHDC

\* explicit ScopedGdiObj(T obj) : obj(obj) {}
ScopedGdiObj_ctor(i, obj) ==
    /\ Running /\ cls = "ScopedGdiObj" /\ i \in FreeSlot
    /\ \E s \in Handed(obj) :
         /\ w' = [s.w EXCEPT ![i] = [kind |-> "ScopedGdiObj", val |-> obj]]
         /\ mem' = s.m
    /\ last' = Op("ctor", i, obj, Null, <<>>, <<>>, <<Ev("store", obj)>>, "")
    /\ UNCHANGED <<cls, guards, addrs, crashed>>

\* ~ScopedGdiObj() { DeleteObject(obj); }
ScopedGdiObj_dtor(i) ==
    /\ Running /\ w[i].kind = "ScopedGdiObj"
    /\ mem' = Rel(mem, w[i].val)
    /\ crashed' \in Outcomes(mem, w[i].val)
    /\ w' = [w EXCEPT ![i] = Dead]
    /\ last' = Op("dtor", i, Null, w[i].val, <<>>, <<>>,
                  <<Ev("DeleteObject", w[i].val)>>, "")
    /\ UNCHANGED <<cls, guards, addrs>>

\* explicit ScopedHDC(HDC hdc) : hdc(hdc) {}
ScopedHDC_ctor(i, hdc) ==
    /\ Running /\ cls = "ScopedHDC" /\ i \in FreeSlot
    /\ \E s \in Handed(hdc) :
         /\ w' = [s.w EXCEPT ![i] = [kind |-> "ScopedHDC", val |-> hdc]]
         /\ mem' = s.m
    /\ last' = Op("ctor", i, hdc, Null, <<>>, <<>>, <<Ev("store", hdc)>>, "")
    /\ UNCHANGED <<cls, guards, addrs, crashed>>

\* ~ScopedHDC() { DeleteDC(hdc); }
ScopedHDC_dtor(i) ==
    /\ Running /\ w[i].kind = "ScopedHDC"
    /\ mem' = Rel(mem, w[i].val)
    /\ crashed' \in Outcomes(mem, w[i].val)
    /\ w' = [w EXCEPT ![i] = Dead]
    /\ last' = Op("dtor", i, Null, w[i].val, <<>>, <<>>,
                  <<Ev("DeleteDC", w[i].val)>>, "")
    /\ UNCHANGED <<cls, guards, addrs>>

\* ---- the copy operations no class declares: the compiler supplies a
\* memberwise copy constructor and copy assignment for each of them

\* T b(a);
CopyCtor(i, j) ==
    /\ Running /\ i \in FreeSlot /\ Live(j)
    /\ w' = [w EXCEPT ![i] = w[j]]
    /\ last' = Op("copy", i, w[j].val, Null, <<>>, <<>>, <<Ev("store", w[j].val)>>, "")
    /\ addrs' = Built(addrs, i)
    /\ UNCHANGED <<cls, guards, mem, crashed>>

\* b = a;
CopyAssign(i, j) ==
    /\ Running /\ Live(i) /\ Live(j) /\ i # j /\ w[i].kind = w[j].kind
    /\ w' = [w EXCEPT ![i].val = w[j].val]
    /\ last' = Op("copyAssign", i, w[j].val, w[i].val, <<>>, <<>>,
                  <<Ev("store", w[j].val)>>, "")
    /\ UNCHANGED <<cls, guards, addrs, mem, crashed>>

\* ---- read access: the conversion operators and operator->

\* return the field; nothing else
Read(i, kinds, name) ==
    /\ Running /\ w[i].kind \in kinds
    /\ last' = Op(name, i, Null, w[i].val, <<w[i].val>>, <<>>, <<>>, "")
    /\ UNCHANGED <<cls, guards, addrs, w, mem, crashed>>

\* ScopedMem: operator T*() const { return ptr; }
ScopedMem_conv(i) == Read(i, MemKinds, "conv")
\* ScopedPtr: T* operator->() const { return obj; }
ScopedPtr_arrow(i) == Read(i, {"ScopedPtr"}, "arrow")
\* ScopedHandle: operator HANDLE() const { return handle; }
ScopedHandle_conv(i) == Read(i, {"ScopedHandle"}, "conv")
\* ScopedComPtr: T* operator->() const { return ptr; }
ScopedComPtr_arrow(i) == Read(i, {"ScopedComPtr"}, "arrow")
\* ScopedComQIPtr: operator T*() const { return ptr; }
ScopedComQIPtr_conv(i) == Read(i, {"ScopedComQIPtr"}, "conv")
\* ScopedComQIPtr: T* operator->() const { return ptr; }
ScopedComQIPtr_arrow(i) == Read(i, {"ScopedComQIPtr"}, "arrow")
\* ScopedGdiObj: operator T() const { return obj; }
ScopedGdiObj_conv(i) == Read(i, {"ScopedGdiObj"}, "conv")
\* ScopedHDC: operator HDC() const { return hdc; }
ScopedHDC_conv(i) == Read(i, {"ScopedHDC"}, "conv")

\* ---- operator& of the reference-counted owners and what it is for

\* T** operator&() { return &ptr; }    (the address of the field of wrapper i)
ComAddr(i, kind) ==
    /\ Running /\ w[i].kind = kind
    /\ addrs' = [addrs EXCEPT !.live = @ \cup {i}]
    /\ last' = Op("addr", i, Null, w[i].val, <<i>>, <<>>, <<>>, "")
    /\ UNCHANGED <<cls, guards, w, mem, crashed>>

ScopedComPtr_addr(i) == ComAddr(i, "ScopedComPtr")
ScopedComQIPtr_addr(i) == ComAddr(i, "ScopedComQIPtr")

\* where a store through an address kept of slot i goes.  An address of the
\* field of the live wrapper is good: the store goes to that field.  An address
\* whose wrapper is destructed dangles and the store is undefined: it goes to
\* dead storage and is lost, or it ends the program, or it goes to the field of
\* a wrapper constructed since, in whatever slot, that was given the storage
FillTargets(i) ==
    (IF i \in addrs.live THEN {[to |-> "field", slot |-> i, good |-> TRUE]} ELSE {}) \cup
    UNION {{[to |-> "lost", slot |-> 0, good |-> FALSE],
            [to |-> "crash", slot |-> 0, good |-> FALSE]} \cup
           {[to |-> "field", slot |-> j, good |-> FALSE] : j \in d.since} :
              d \in {e \in addrs.stale : e.slot = i}}

\* a function the address was handed to fills the slot, as CoCreateInstance
\* does in Create: on success it stores a new instance with one reference for
\* the caller, on failure it stores null.  The caller may use the address at
\* any time after operator& returned it.  (The operation records as old what
\* the wrapper the address was taken of held: nothing once it is destructed.)
OutParamFill(i, ok) ==
    /\ Running
    /\ \E tgt \in FillTargets(i) :
         LET old == IF tgt.good THEN w[i].val ELSE Null
         IN  /\ crashed' = (tgt.to = "crash")
             /\ IF ok
                THEN \E n \in FreshSet(mem) : \E s \in Handed(n) :
                       /\ mem' = s.m
                       /\ w' = IF tgt.to = "field"
                               THEN [s.w EXCEPT ![tgt.slot].val = n] ELSE s.w
                       /\ last' = Op("fill", i, n, old, <<>>, <<TRUE>>,
                                     <<Ev("store", n)>>, "")
                ELSE /\ mem' = mem
                     /\ w' = IF tgt.to = "field"
                             THEN [w EXCEPT ![tgt.slot].val = Null] ELSE w
                     /\ last' = Op("fill", i, Null, old, <<>>, <<FALSE>>,
                                   <<Ev("store", Null)>>, "")
    /\ UNCHANGED <<cls, guards, addrs>>

\* ---- the specification

\* what a caller can hand to a constructor or to a reassignment: nothing, a
\* resource it has just acquired, or any other pointer that is valid at the call
AnyArgs == {Null} \cup FreshSet(mem) \cup LiveSet(mem)
CtorArgs == AnyArgs
\* an interface pointer to query: a live object
UnkArgs == FreshSet(mem) \cup LiveSet(mem)

Next ==
    \/ \E i \in Wrappers : ScopedMem_ctor0(i)
    \/ \E i \in Wrappers, p \in CtorArgs : ScopedMem_ctor(i, p)
    \/ \E i \in Wrappers : ScopedMem_dtor(i)
    \/ \E i \in Wrappers, p \in AnyArgs : ScopedMem_Set(i, p)
    \/ \E i \in Wrappers : ScopedMem_Get(i)
    \/ \E i \in Wrappers : ScopedMem_StealData(i)
    \/ \E i \in Wrappers : ScopedPtr_ctor0(i)
    \/ \E i \in Wrappers, p \in CtorArgs : ScopedPtr_ctor(i, p)
    \/ \E i \in Wrappers : ScopedPtr_dtor(i)
    \/ \E i \in Wrappers : ScopedPtr_Detach(i)
    \/ \E i \in Wrappers : ScopedPtr_conv(i)
    \/ \E i \in Wrappers, p \in AnyArgs : ScopedPtr_assign(i, p)
    \/ \E i \in Wrappers : AutoFreeStr_ctor0(i)
    \/ \E i \in Wrappers, p \in CtorArgs : AutoFreeStr_ctor(i, p)
    \/ \E i \in Wrappers, p \in AnyArgs : AutoFreeStr_SetCopy(i, p)
    \/ \E r \in Res : CallerFree(r)
    \/ \E r \in Res, c \in Chars : CallerMutate(r, c)
    \/ \E i \in Wrappers, h \in CtorArgs \cup {INVALID_HANDLE_VALUE} : ScopedHandle_ctor(i, h)
    \/ \E i \in Wrappers : ScopedHandle_dtor(i)
    \/ \E i \in Wrappers : ScopedHandle_IsValid(i)
    \/ \E i \in Wrappers : ScopedComPtr_ctor0(i)
    \/ \E i \in Wrappers, p \in CtorArgs : ScopedComPtr_ctor(i, p)
    \/ \E i \in Wrappers : ScopedComPtr_dtor(i)
    \/ \E i \in Wrappers, ok \in BOOLEAN : ScopedComPtr_Create(i, ok)
    \/ \E i \in Wrappers : ScopedComPtr_conv(i)
    \/ \E i \in Wrappers, p \in AnyArgs : ScopedComPtr_assign(i, p)
    \/ \E i \in Wrappers : ScopedComQIPtr_ctor0(i)
    \/ \E i \in Wrappers, u \in UnkArgs, ok \in BOOLEAN : ScopedComQIPtr_ctor(i, u, ok)
    \/ \E i \in Wrappers : ScopedComQIPtr_dtor(i)
    \/ \E i \in Wrappers, ok \in BOOLEAN : ScopedComQIPtr_Create(i, ok)
    \/ \E i \in Wrappers, u \in UnkArgs, ok \in BOOLEAN : ScopedComQIPtr_assignQI(i, u, ok)
    \/ \E i \in Wrappers, p \in AnyArgs : ScopedComQIPtr_assign(i, p)
    \/ \E i \in Wrappers, p \in CtorArgs : ScopedGdiObj_ctor(i, p)
    \/ \E i \in Wrappers : ScopedGdiObj_dtor(i)
    \/ \E i \in Wrappers, p \in CtorArgs : ScopedHDC_ctor(i, p)
    \/ \E i \in Wrappers : ScopedHDC_dtor(i)
    \/ \E i \in Wrappers : ScopedMem_conv(i)
    \/ \E i \in Wrappers : ScopedPtr_arrow(i)
    \/ \E i \in Wrappers : ScopedHandle_conv(i)
    \/ \E i \in Wrappers : ScopedComPtr_arrow(i)
    \/ \E i \in Wrappers : ScopedComQIPtr_conv(i)
    \/ \E i \in Wrappers : ScopedComQIPtr_arrow(i)
    \/ \E i \in Wrappers : ScopedGdiObj_conv(i)
    \/ \E i \in Wrappers : ScopedHDC_conv(i)
    \/ \E i \in Wrappers : ScopedComPtr_addr(i)
    \/ \E i \in Wrappers : ScopedComQIPtr_addr(i)
    \/ \E i \in Wrappers, ok \in BOOLEAN : OutParamFill(i, ok)
    \/ \E i, j \in Wrappers : CopyCtor(i, j)
    \/ \E i, j \in Wrappers : CopyAssign(i, j)

Spec == Init /\ [][Next]_vars

\* ---- the guards.  A guard is an automatic object: a thread's live guards
\* form a stack, and leaving a scope destructs the guard constructed last.

\* a behaviour of the guards is a program of at most MaxGuardOps steps;
\* MaxDrawOps for the two classes whose states are many (ScopedHdcSelect,
\* ScopedGdiPlus: any thread, any device context or option, any order)
GuardOps == IF cls \in {"ScopedHdcSelect", "ScopedGdiPlus"} THEN MaxDrawOps ELSE MaxGuardOps

Going == ~crashed /\ last.n < GuardOps

Top(s) == s[Len(s)]
Pop(s) == SubSeq(s, 1, Len(s) - 1)

\* a thread that is not blocked declares a guard in a (nested) scope
CanNest(t) == waiting[t] = "none" /\ Len(scope[t]) < MaxDepth

\* the thread leaves its innermost scope, which holds a guard of this class
AtScopeExit(t, kind) ==
    waiting[t] = "none" /\ scope[t] # <<>> /\ Top(scope[t]).kind = kind

\* ---- ScopedHdcSelect

\* SelectObject(hdc, obj) on the selections S: obj replaces the object selected
\* into hdc and the replaced object is returned; with no object (NULL) nothing
\* is selected and NULL is returned
SelectObject(S, hdc, obj) ==
    IF obj = Null THEN [s |-> S, ret |-> Null]
    ELSE [s |-> [S EXCEPT ![hdc] = obj], ret |-> S[hdc]]

\* ScopedHdcSelect(HDC hdc, HGDIOBJ obj) : hdc(hdc) { prev = SelectObject(hdc, obj); }
\* (beside the two fields the record keeps what the constructor selected, obj,
\* and into which device context, dc; no operation reads them)
ScopedHdcSelect_ctor(t, hdc, obj) ==
    /\ Going /\ cls = "ScopedHdcSelect" /\ CanNest(t)
    /\ selected' = SelectObject(selected, hdc, obj).s
    /\ scope' = [scope EXCEPT ![t] = Append(@,
                    [kind |-> "ScopedHdcSelect", hdc |-> hdc,
                     prev |-> SelectObject(selected, hdc, obj).ret,
                     obj |-> obj, dc |-> hdc])]
    /\ last' = Op("ctor", t, obj, selected[hdc],
                  <<SelectObject(selected, hdc, obj).ret>>, <<>>,
                  <<Ev("SelectObject", <<hdc, obj>>)>>, hdc)
    /\ UNCHANGED <<cls, w, mem, addrs, crashed, waiting, locks, subsys>>

\* ~ScopedHdcSelect() { SelectObject(hdc, prev); }
ScopedHdcSelect_dtor(t) ==
    /\ Going /\ AtScopeExit(t, "ScopedHdcSelect")
    /\ selected' = SelectObject(selected, Top(scope[t]).hdc, Top(scope[t]).prev).s
    /\ scope' = [scope EXCEPT ![t] = Pop(@)]
    /\ last' = Op("dtor", t, Top(scope[t]).prev, selected[Top(scope[t]).hdc], <<>>, <<>>,
                  <<Ev("SelectObject", <<Top(scope[t]).hdc, Top(scope[t]).prev>>)>>,
                  Top(scope[t]).hdc)
    /\ UNCHANGED <<cls, w, mem, addrs, crashed, waiting, locks, subsys>>

\* ---- ScopedCritSec

\* EnterCriticalSection(cs) returns to thread t once cs is unowned, or owned
\* by t itself (a critical section is recursive)
CanEnter(c, t) == locks[c].owner \in {0, t}

\* the critical section after EnterCriticalSection has returned to t
Entered(L, c, t) ==
    [L EXCEPT ![c] = [owner |-> t, count |-> @.count + 1,
                      enters |-> @.enters + 1, leaves |-> @.leaves]]

\* LeaveCriticalSection(cs): one level of ownership less, unowned at zero; the
\* primitive does not test who calls it
Left(L, c) ==
    [L EXCEPT ![c] = [owner |-> IF @.count = 1 THEN 0 ELSE @.owner,
                      count |-> @.count - 1,
                      enters |-> @.enters, leaves |-> @.leaves + 1]]

\* explicit ScopedCritSec(CRITICAL_SECTION* cs) : cs(cs) { EnterCriticalSection(cs); }
\* the call: the thread waits in EnterCriticalSection
ScopedCritSec_ctor(t, c) ==
    /\ Going /\ cls = "ScopedCritSec" /\ CanNest(t)
    /\ waiting' = [waiting EXCEPT ![t] = c]
    /\ last' = Op("ctor", t, Null, Null, <<>>, <<>>, <<Ev("EnterCriticalSection", c)>>, c)
    /\ UNCHANGED <<cls, w, mem, addrs, crashed, scope, locks, selected, subsys>>

\* EnterCriticalSection returns and with it the constructor: the guard is live
ScopedCritSec_ctor_return(t) ==
    /\ Going /\ cls = "ScopedCritSec"
    /\ waiting[t] # "none" /\ CanEnter(waiting[t], t)
    /\ locks' = Entered(locks, waiting[t], t)
    /\ scope' = [scope EXCEPT ![t] = Append(@, [kind |-> "ScopedCritSec", cs |-> waiting[t]])]
    /\ waiting' = [waiting EXCEPT ![t] = "none"]
    /\ last' = Op("entered", t, Null, Null, <<>>, <<>>, <<>>, waiting[t])
    /\ UNCHANGED <<cls, w, mem, addrs, crashed, selected, subsys>>

\* ~ScopedCritSec() { LeaveCriticalSection(cs); }
ScopedCritSec_dtor(t) ==
    /\ Going /\ AtScopeExit(t, "ScopedCritSec")
    /\ locks' = Left(locks, Top(scope[t]).cs)
    /\ scope' = [scope EXCEPT ![t] = Pop(@)]
    /\ last' = Op("dtor", t, Null, Null, <<>>, <<>>,
                  <<Ev("LeaveCriticalSection", Top(scope[t]).cs)>>, Top(scope[t]).cs)
    /\ UNCHANGED <<cls, w, mem, addrs, crashed, waiting, selected, subsys>>

\* ---- ScopedCom, ScopedOle

Started(S, s) == [S EXCEPT ![s].startups = @ + 1]
Stopped(S, s) == [S EXCEPT ![s].shutdowns = @ + 1]

\* ScopedCom() { (void)CoInitialize(nullptr); }    (the result ok is discarded)
ScopedCom_ctor(t, ok) ==
    /\ Going /\ cls = "ScopedCom" /\ CanNest(t)
    /\ subsys' = Started(subsys, "Com")
    /\ scope' = [scope EXCEPT ![t] = Append(@, [kind |-> "ScopedCom"])]
    /\ last' = Op("ctor", t, Null, Null, <<>>, <<>>, <<Ev("CoInitialize", ok)>>, "Com")
    /\ UNCHANGED <<cls, w, mem, addrs, crashed, waiting, locks, selected>>

\* ~ScopedCom() { CoUninitialize(); }
ScopedCom_dtor(t) ==
    /\ Going /\ AtScopeExit(t, "ScopedCom")
    /\ subsys' = Stopped(subsys, "Com")
    /\ scope' = [scope EXCEPT ![t] = Pop(@)]
    /\ last' = Op("dtor", t, Null, Null, <<>>, <<>>, <<Ev("CoUninitialize", Null)>>, "Com")
    /\ UNCHANGED <<cls, w, mem, addrs, crashed, waiting, locks, selected>>

\* ScopedOle() { (void)OleInitialize(nullptr); }
ScopedOle_ctor(t, ok) ==
    /\ Going /\ cls = "ScopedOle" /\ CanNest(t)
    /\ subsys' = Started(subsys, "Ole")
    /\ scope' = [scope EXCEPT ![t] = Append(@, [kind |-> "ScopedOle"])]
    /\ last' = Op("ctor", t, Null, Null, <<>>, <<>>, <<Ev("OleInitialize", ok)>>, "Ole")
    /\ UNCHANGED <<cls, w, mem, addrs, crashed, waiting, locks, selected>>

\* ~ScopedOle() { OleUninitialize(); }
ScopedOle_dtor(t) ==
    /\ Going /\ AtScopeExit(t, "ScopedOle")
    /\ subsys' = Stopped(subsys, "Ole")
    /\ scope' = [scope EXCEPT ![t] = Pop(@)]
    /\ last' = Op("dtor", t, Null, Null, <<>>, <<>>, <<Ev("OleUninitialize", Null)>>, "Ole")
    /\ UNCHANGED <<cls, w, mem, addrs, crashed, waiting, locks, selected>>

\* ---- ScopedGdiPlus

Hooked(S) == [S EXCEPT !["GdiPlus"].hooks = @ + 1]
Unhooked(S) == [S EXCEPT !["GdiPlus"].unhooks = @ + 1]

\* a call through so.NotificationHook / so.NotificationUnhook, made only with
\* the option: with so written by GdiplusStartup it reaches the procedure;
\* with so never written it is undefined: it reaches the procedure an earlier
\* guard left in the storage, or goes nowhere, or ends the program
HookOutcomes(option, written) ==
    IF ~option THEN {"none"}
    ELSE IF written THEN {"made"}
    ELSE {"made", "lost", "crash"}

\* explicit ScopedGdiPlus(bool inWinMain = false) : noBgThread(inWinMain) {
\*     si.SuppressBackgroundThread = noBgThread;
\*     Gdiplus::GdiplusStartup(&token, &si, &so);
\*     if (noBgThread) so.NotificationHook(&hookToken); }
\* The status of GdiplusStartup (ok) is discarded.  When it fails, token and so
\* are never written and hold what the storage held.
ScopedGdiPlus_ctor(t, inWinMain, ok) ==
    /\ Going /\ cls = "ScopedGdiPlus" /\ CanNest(t)
    /\ \E hook \in HookOutcomes(inWinMain, ok) :
         /\ crashed' = (hook = "crash")
         /\ subsys' = IF hook = "made" THEN Hooked(Started(subsys, "GdiPlus"))
                      ELSE Started(subsys, "GdiPlus")
         /\ scope' = IF crashed' THEN scope
                     ELSE [scope EXCEPT ![t] = Append(@,
                             [kind |-> "ScopedGdiPlus", noBgThread |-> inWinMain,
                              so |-> IF ok THEN "written" ELSE "indeterminate",
                              token |-> IF ok THEN "token" ELSE "indeterminate",
                              hookToken |-> IF hook = "made" THEN "hookToken"
                                            ELSE "indeterminate"])]
         /\ last' = Op("ctor", t, inWinMain, Null, <<>>, <<>>,
                       <<Ev("GdiplusStartup", ok)>> \o
                       (IF inWinMain THEN <<Ev("NotificationHook", hook = "made")>>
                        ELSE <<>>), "GdiPlus")
    /\ UNCHANGED <<cls, w, mem, addrs, waiting, locks, selected>>

\* the calls of the destructor, in order
GdiPlusDtorCalls(g) ==
    (IF g.noBgThread THEN <<Ev("NotificationUnhook", g.hookToken)>> ELSE <<>>)
    \o <<Ev("GdiplusShutdown", g.token)>>

\* a destructor that shuts the runtime down before it removes the hook
ScopedGdiPlus_dtor_ShutdownFirst(t) ==
    /\ Going /\ AtScopeExit(t, "ScopedGdiPlus")
    /\ crashed' = FALSE
    /\ subsys' = IF Top(scope[t]).noBgThread
                 THEN Unhooked(Stopped(subsys, "GdiPlus"))
                 ELSE Stopped(subsys, "GdiPlus")
    /\ scope' = [scope EXCEPT ![t] = Pop(@)]
    /\ last' = Op("dtor", t, Null, Top(scope[t]).noBgThread, <<>>, <<>>,
                  <<Ev("GdiplusShutdown", Top(scope[t]).token)>> \o
                  (IF Top(scope[t]).noBgThread
                   THEN <<Ev("NotificationUnhook", Top(scope[t]).hookToken)>> ELSE <<>>),
                  "GdiPlus")
    /\ UNCHANGED <<cls, w, mem, addrs, waiting, locks, selected>>

\* ~ScopedGdiPlus() {
\*     if (noBgThread) so.NotificationUnhook(hookToken);
\*     Gdiplus::GdiplusShutdown(token); }
\* After a failed startup the calls read what was never written (so, token):
\* undefined.
ScopedGdiPlus_dtor(t) ==
    LET g     == Top(scope[t])
        calls == GdiPlusDtorCalls(g)
    IN  /\ Going /\ AtScopeExit(t, "ScopedGdiPlus")
        /\ scope' = [scope EXCEPT ![t] = Pop(@)]
        /\ \E unhook \in HookOutcomes(g.noBgThread, g.so = "written") :
             IF unhook = "crash"
             THEN /\ crashed' = TRUE
                  /\ subsys' = subsys
                  /\ last' = Op("dtor", t, Null, g.noBgThread, <<>>, <<>>,
                                <<Head(calls)>>, "GdiPlus")
             ELSE /\ crashed' \in (IF g.token = "indeterminate" THEN BOOLEAN ELSE {FALSE})
                  /\ subsys' = IF unhook = "made" THEN Stopped(Unhooked(subsys), "GdiPlus")
                               ELSE Stopped(subsys, "GdiPlus")
                  /\ last' = Op("dtor", t, Null, g.noBgThread, <<>>, <<>>, calls, "GdiPlus")
        /\ UNCHANGED <<cls, w, mem, addrs, waiting, locks, selected>>

\* ---- the copy operations of the guards: no guard class declares them, the
\* compiler supplies a memberwise copy constructor and copy assignment

\* the members of g, copied (the copy itself has selected nothing)
CopyOf(g) == IF g.kind = "ScopedHdcSelect" THEN [g EXCEPT !.obj = Null] ELSE g

\* G copy(g);    for the k-th live guard g of the thread: no primitive is called
GuardCopyCtor(t, k) ==
    /\ Going /\ cls \in GuardKinds /\ CanNest(t) /\ k \in DOMAIN scope[t]
    /\ scope' = [scope EXCEPT ![t] = Append(@, CopyOf(@[k]))]
    /\ last' = Op("copy", t, k, Null, <<>>, <<>>, <<>>, "")
    /\ UNCHANGED <<cls, w, mem, addrs, crashed, waiting, locks, selected, subsys>>

\* g = h;    for the k-th and the j-th live guard of the thread
GuardCopyAssign(t, k, j) ==
    /\ Going /\ cls \in GuardKinds /\ waiting[t] = "none"
    /\ k \in DOMAIN scope[t] /\ j \in DOMAIN scope[t] /\ k # j
    /\ scope' = [scope EXCEPT ![t][k] =
                    IF @.kind = "ScopedHdcSelect"
                    THEN [scope[t][j] EXCEPT !.obj = scope[t][k].obj, !.dc = scope[t][k].dc]
                    ELSE scope[t][j]]
    /\ last' = Op("copyAssign", t, k, j, <<>>, <<>>, <<>>, "")
    /\ UNCHANGED <<cls, w, mem, addrs, crashed, waiting, locks, selected, subsys>>

\* ---- the specification of the guards

\* the objects the guards of a stack have selected or recorded
GuardObjs(st) == UNION {{st[k].obj, st[k].prev} : k \in DOMAIN st}

\* the objects the program has in use: those of the guards in scope and those
\* selected now
SeenObjs ==
    IF cls # "ScopedHdcSelect" THEN {}
    ELSE Res \cap ({selected[d] : d \in DCs} \cup UNION {GuardObjs(scope[t]) : t \in Threads})

\* what a caller selects: no object, an object in use, or the next new one
ObjArgs ==
    LET new == Res \ SeenObjs
    IN  {Null} \cup SeenObjs \cup
        (IF new = {} THEN {} ELSE {CHOOSE r \in new : \A q \in new : r <= q})

GuardInit ==
    /\ cls \in GuardKinds
    /\ GuardIdle
    /\ NoWrapper

GuardNext ==
    \/ \E t \in Threads, c \in CritSecs : ScopedCritSec_ctor(t, c)
    \/ \E t \in Threads : ScopedCritSec_ctor_return(t)
    \/ \E t \in Threads : ScopedCritSec_dtor(t)
    \/ \E t \in Threads, d \in DCs, o \in ObjArgs : ScopedHdcSelect_ctor(t, d, o)
    \/ \E t \in Threads : ScopedHdcSelect_dtor(t)
    \/ \E t \in Threads, ok \in BOOLEAN : ScopedCom_ctor(t, ok)
    \/ \E t \in Threads : ScopedCom_dtor(t)
    \/ \E t \in Threads, ok \in BOOLEAN : ScopedOle_ctor(t, ok)
    \/ \E t \in Threads : ScopedOle_dtor(t)
    \/ \E t \in Threads, inWinMain \in BOOLEAN, ok \in BOOLEAN :
          ScopedGdiPlus_ctor(t, inWinMain, ok)
    \/ \E t \in Threads : ScopedGdiPlus_dtor(t)
    \/ \E t \in Threads, k \in 1..MaxDepth : GuardCopyCtor(t, k)
    \/ \E t \in Threads, k \in 1..MaxDepth, j \in 1..MaxDepth : GuardCopyAssign(t, k, j)

GuardSpec == GuardInit /\ [][GuardNext]_vars


\* ---- what the claims speak of

\* the release action of each class
PrimOf(c) ==
    CASE c \in MemKinds -> "free"
      [] c = "ScopedPtr" -> "delete"
      [] c = "ScopedHandle" -> "CloseHandle"
      [] c \in {"ScopedComPtr", "ScopedComQIPtr"} -> "Release"
      [] c = "ScopedGdiObj" -> "DeleteObject"
      [] c = "ScopedHDC" -> "DeleteDC"

ReleasePrims == {"free", "delete", "CloseHandle", "Release", "DeleteObject", "DeleteDC"}

\* the calls of a release action among the events of an operation
RelCalls(ev) == SelectSeq(ev, LAMBDA e : e.prim \in ReleasePrims)

\* the classes whose destructor and reassignment test the field before releasing
\* (the delete-expression of ScopedPtr does so itself)
GuardedClasses == {"ScopedPtr", "ScopedComPtr", "ScopedComQIPtr"}

\* C1: for ScopedMem, ScopedPtr and ScopedComPtr, whatever the sequence of
\* constructions, reassignments (with any argument), detachments, reads and
\* destructions, no resource has had the release action invoked on it more
\* than once.
C1_AtMostOnceRelease ==
    cls \in {"ScopedMem", "ScopedPtr", "ScopedComPtr"} =>
        \A r \in Res : mem.released[r] <= 1

\* C2: a ScopedHandle holding INVALID_HANDLE_VALUE is destructed without a
\* call of CloseHandle.
C2_NoCloseOnInvalid ==
    (cls = "ScopedHandle" /\ last.op = "dtor" /\ last.old = INVALID_HANDLE_VALUE) =>
        RelCalls(last.ev) = <<>>

\* the operations between two wrappers
CopyOps == {"copy", "copyAssign"}

\* C3: single ownership: copying is not an operation of the wrappers, so no
\* operation between two wrappers leaves a resource held by two of them.  (A
\* caller that hands one raw pointer to two wrappers breaks the contract
\* itself; that is not what the claim is about.)
C3_SingleOwnership ==
    (last.op \in CopyOps /\ last.arg \in Res) => Cardinality(Holders(last.arg)) <= 1

\* C4: a reassignment (Set, operator=(T*)) of a non-empty owner makes exactly
\* one call of the release action, on the value held before, as its first
\* step; when it returns, the store of the new value is the step that follows
\* and the wrapper holds the new value.
C4_ReassignReleasesThenStores ==
    (last.op \in {"Set", "assign"} /\ last.old # Null) =>
        /\ RelCalls(last.ev) = <<Ev(PrimOf(cls), last.old)>>
        /\ last.ev[1] = Ev(PrimOf(cls), last.old)
        /\ ~crashed =>
             /\ last.ev = <<Ev(PrimOf(cls), last.old), Ev("store", last.arg)>>
             /\ w[last.i].val = last.arg

C4_Witness ==
    /\ last.op \in {"Set", "assign"} /\ ~crashed
    /\ last.old \in Res /\ last.arg \in Res /\ last.arg # last.old
    /\ mem.released[last.old] = 1 /\ w[last.i].val = last.arg

C5_State ==
    last.op \in {"StealData", "Detach"} =>
        /\ last.ret = <<last.old>>
        /\ w[last.i].val = Null
        /\ RelCalls(last.ev) = <<>>

C5_Step ==
    (last.op \in {"StealData", "Detach"} /\ last'.op = "dtor" /\ last'.i = last.i) =>
        /\ \A k \in DOMAIN last'.ev : last'.ev[k].arg \notin Res
        /\ mem'.released = mem.released

\* C5: StealData and Detach return the value that was held, leave the wrapper
\* null and call no release action; the destruction that follows releases
\* nothing (no call reaches the detached resource, nor any other).
C5_DetachClearsWithoutRelease == [](C5_State) /\ [][C5_Step]_vars

C5_Witness ==
    /\ last.op \in {"StealData", "Detach"} /\ last.old \in Res
    /\ last.ret = <<last.old>> /\ w[last.i].val = Null
    /\ mem.heap[last.old] = "live"

C6_Step ==
    (/\ last.op \in {"ctor", "ctorQI"} /\ w[last.i].val \in Res
     /\ last'.op = "dtor" /\ last'.i = last.i) =>
        /\ last'.ev = <<Ev(PrimOf(cls), w[last.i].val)>>
        /\ mem'.released[w[last.i].val] = mem.released[w[last.i].val] + 1

\* C6: for every class, a wrapper constructed with a resource and destructed
\* right away makes exactly one call of its release action, on that resource.
C6_ConstructDestructReleasesOnce == [][C6_Step]_vars

C6_Witness ==
    /\ last.n = 2 /\ last.op = "dtor" /\ last.old \in Res
    /\ mem.released[last.old] = 1 /\ mem.heap[last.old] = "released"

\* the constructions that leave the wrapper empty
EmptyConstructed == last.op \in {"ctor0", "ctor"} /\ w[last.i].val = Null

\* C7 as stated: a wrapper constructed empty and destructed at once makes no
\* call of its release action.
C7_EmptyDtorMakesNoCall ==
    (last.n = 2 /\ last.op = "dtor" /\ last.old = Null) => last.ev = <<>>

C7_Step ==
    (EmptyConstructed /\ last'.op = "dtor" /\ last'.i = last.i) =>
        /\ mem' = mem
        /\ ~crashed'
        /\ last'.ev = IF cls \in GuardedClasses THEN <<>>
                      ELSE <<Ev(PrimOf(cls), Null)>>

\* C7 (amended): a wrapper constructed empty and destructed at once releases no
\* resource: ScopedPtr, ScopedComPtr and ScopedComQIPtr make no call, the
\* other classes call their release action once, with the null sentinel.
C7_EmptyDtorReleasesNothing == [][C7_Step]_vars

C7_Witness ==
    /\ last.n = 2 /\ last.op = "dtor" /\ last.old = Null
    /\ last.ev = <<Ev(PrimOf(cls), Null)>>

QueryFailed == last.op \in {"ctorQI", "assignQI"} /\ last.retB = <<FALSE>> /\ ~crashed

C8_State ==
    /\ QueryFailed => w[last.i].val = Null
    /\ last.op = "ctorQI" => ~crashed

C8_Step ==
    (QueryFailed /\ last'.op = "dtor" /\ last'.i = last.i) =>
        last'.ev = <<>> /\ mem' = mem /\ ~crashed'

\* C8: a ScopedComQIPtr constructed from, or assigned, an interface pointer
\* whose QueryInterface fails is left null, the construction does not end the
\* program, and its destruction then makes no call of Release.
C8_FailedQueryLeavesEmpty == [](C8_State) /\ [][C8_Step]_vars

C8_Witness ==
    /\ last.op = "ctorQI" /\ last.retB = <<FALSE>> /\ last.arg \in Res
    /\ w[last.i].val = Null /\ ~crashed

\* C9: Create on an occupied slot fires the assertion, instantiates nothing,
\* leaves the pointer as it was and, when it returns, returns false; on an
\* empty slot it calls CoCreateInstance, returns true exactly when that
\* produced an instance, and the slot is non-null afterwards only then.
C9_Create ==
    last.op = "Create" =>
        IF last.old # Null
        THEN /\ last.ev = <<Ev("CrashIf", last.old)>>
             /\ w[last.i].val = last.old
             /\ ~crashed => last.retB = <<FALSE>>
        ELSE /\ ~crashed
             /\ Len(last.ev) = 2 /\ last.ev[1].prim = "CoCreateInstance"
             /\ last.retB = <<last.ev[1].arg # Null>>
             /\ w[last.i].val = last.ev[1].arg
             /\ w[last.i].val # Null => last.retB = <<TRUE>>

C9_Witness ==
    /\ last.op = "Create" /\ last.old \in Res /\ ~crashed
    /\ last.retB = <<FALSE>> /\ w[last.i].val = last.old

\* C10: a SetCopy that returns has made exactly one call of free, on the
\* buffer held before; with a borrowed buffer the wrapper then holds a live
\* buffer other than the borrowed one, with the text the borrowed buffer had
\* at the call; with a null argument the wrapper is null.
C10_SetCopyStoresDuplicate ==
    (last.op = "SetCopy" /\ ~crashed) =>
        /\ RelCalls(last.ev) = <<Ev("free", last.old)>>
        /\ last.arg = Null => w[last.i].val = Null
        /\ last.arg # Null =>
             /\ w[last.i].val \in Res \ {last.arg}
             /\ mem.heap[w[last.i].val] = "live"
             /\ mem.data[w[last.i].val] = last.argData

\* ---- the claims about the guards (GuardSpec)

\* the guards of a stack that selected an object into d, oldest first
SelectorsOf(st, d) == SelectSeq(st, LAMBDA g : g.dc = d /\ g.obj # Null)

\* the guards that selected an object into d are nested: they are guards of
\* thread t alone, each recorded the object of the one around it, and d has the
\* object of the innermost one
NestedOn(t, d) ==
    LET G == SelectorsOf(scope[t], d)
    IN  /\ {u \in Threads : SelectorsOf(scope[u], d) # <<>>} = {t}
        /\ \A k \in 2..Len(G) : G[k].prev = G[k - 1].obj
        /\ selected[d] = Top(G).obj

\* a constructor selects its object and records the one it replaced; a scope
\* exit leaves a device context with nested guards on it with the object of the
\* innermost guard that remains, and with the object from before the outermost
\* one when none remains
C11_Step ==
    (cls = "ScopedHdcSelect" /\ last'.n = last.n + 1) =>
        /\ (last'.op = "ctor" /\ last'.arg # Null) =>
             /\ selected'[last'.argData] = last'.arg
             /\ Top(scope'[last'.i]).prev = selected[last'.argData]
        /\ last'.op = "dtor" =>
             \A d \in DCs : \A t \in Threads :
                NestedOn(t, d) =>
                    selected'[d] = IF SelectorsOf(scope'[t], d) # <<>>
                                   THEN Top(SelectorsOf(scope'[t], d)).obj
                                   ELSE SelectorsOf(scope[t], d)[1].prev

\* C11: guards nested on one device context restore in reverse order of
\* selection: destroying the inner guard re-selects the object the outer guard
\* selected, and destroying the outer guard re-selects the object that was
\* selected before the outer guard was constructed.  (Nested guards are guards
\* of one thread; guards of two threads on one device context are not nested.)
C11_NestedSelectLIFO == [][C11_Step]_vars

\* the primitives an operation called, in order
Prims(ev) == [k \in DOMAIN ev |-> ev[k].prim]

\* the calls of each operation, in order
C12_State ==
    cls = "ScopedGdiPlus" =>
        /\ last.op = "ctor" =>
             Prims(last.ev) = IF last.arg THEN <<"GdiplusStartup", "NotificationHook">>
                              ELSE <<"GdiplusStartup">>
        /\ last.op = "dtor" =>
             IF last.old
             THEN /\ Prims(last.ev)[1] = "NotificationUnhook"
                  /\ ~crashed => Prims(last.ev) = <<"NotificationUnhook", "GdiplusShutdown">>
             ELSE Prims(last.ev) = <<"GdiplusShutdown">>

\* what each operation does to the hooks: with the option and the runtime
\* started, one hook more at construction and one removal more at destruction;
\* without the option, nothing
C12_Step ==
    (cls = "ScopedGdiPlus" /\ last'.n = last.n + 1) =>
        LET H == subsys["GdiPlus"]
            J == subsys'["GdiPlus"]
        IN  /\ (last'.op = "ctor" /\ ~last'.arg) =>
                 J.hooks = H.hooks /\ J.unhooks = H.unhooks
            /\ (last'.op = "ctor" /\ last'.arg /\ last'.ev[1].arg) =>
                 /\ J.hooks = H.hooks + 1 /\ J.unhooks = H.unhooks /\ ~crashed'
                 /\ Top(scope'[last'.i]).hookToken = "hookToken"
            /\ (last'.op = "dtor" /\ ~last'.old) =>
                 J.hooks = H.hooks /\ J.unhooks = H.unhooks
            /\ (last'.op = "dtor" /\ last'.old /\ Top(scope[last'.i]).so = "written") =>
                 /\ J.unhooks = H.unhooks + 1 /\ J.hooks = H.hooks
                 /\ J.shutdowns = H.shutdowns + 1 /\ ~crashed'
                 /\ last'.ev = <<Ev("NotificationUnhook", Top(scope[last'.i]).hookToken),
                                 Ev("GdiplusShutdown", Top(scope[last'.i]).token)>>

\* C12: a ScopedGdiPlus constructed with inWinMain calls NotificationHook
\* after GdiplusStartup, and its destructor calls NotificationUnhook strictly
\* before GdiplusShutdown; without the option neither hook call is made and
\* the hooks are left as they are.
C12_HookInsideStartupShutdown == [](C12_State) /\ [][C12_Step]_vars

\* a guard with the option has been constructed and destructed: one hook
\* installed, removed, and the runtime shut down after that
C12_Witness ==
    /\ cls = "ScopedGdiPlus" /\ last.op = "dtor" /\ last.old /\ ~crashed
    /\ last.ev = <<Ev("NotificationUnhook", "hookToken"), Ev("GdiplusShutdown", "token")>>
    /\ subsys["GdiPlus"].startups = 1 /\ subsys["GdiPlus"].hooks = 1
    /\ subsys["GdiPlus"].unhooks = 1 /\ subsys["GdiPlus"].shutdowns = 1

\* C13: in one thread, a guard A constructed inside the scope of a guard B
\* releases its lock at scope exit before B releases its own (the release
\* order is the reverse of the acquisition order): a scope exit has left the
\* critical section of the guard that went, and every guard still in scope
\* has its critical section held by the thread.
C13_NestedLocksReleaseInReverse ==
    (cls = "ScopedCritSec" /\ last.op = "dtor") =>
        /\ last.ev = <<Ev("LeaveCriticalSection", last.argData)>>
        /\ \A k \in DOMAIN scope[last.i] :
             /\ locks[scope[last.i][k].cs].owner = last.i
             /\ locks[scope[last.i][k].cs].count >= 1

InitGuards == {"ScopedCom", "ScopedOle", "ScopedGdiPlus"}

\* the subsystem of an init guard, its startup call and its shutdown call
SubsystemOf(c) ==
    CASE c = "ScopedCom" -> "Com" [] c = "ScopedOle" -> "Ole" [] c = "ScopedGdiPlus" -> "GdiPlus"
StartupOf(c) ==
    CASE c = "ScopedCom" -> "CoInitialize" [] c = "ScopedOle" -> "OleInitialize"
      [] c = "ScopedGdiPlus" -> "GdiplusStartup"
ShutdownOf(c) ==
    CASE c = "ScopedCom" -> "CoUninitialize" [] c = "ScopedOle" -> "OleUninitialize"
      [] c = "ScopedGdiPlus" -> "GdiplusShutdown"

\* how many of the calls of an operation are calls of p
CallsOf(ev, p) == Cardinality({k \in DOMAIN ev : ev[k].prim = p})

\* C14: the constructor of ScopedCom, ScopedOle and ScopedGdiPlus calls the
\* startup of its subsystem exactly once (and no shutdown), the destructor
\* calls the matching shutdown exactly once (and no startup); with every
\* guard destroyed the shutdown calls are as many as the startup calls.  No
\* other subsystem is called.
C14_StartupShutdownBalanced ==
    cls \in InitGuards =>
        /\ last.op = "ctor" =>
             /\ CallsOf(last.ev, StartupOf(cls)) = 1
             /\ CallsOf(last.ev, ShutdownOf(cls)) = 0
        /\ (last.op = "dtor" /\ ~crashed) =>
             /\ CallsOf(last.ev, ShutdownOf(cls)) = 1
             /\ CallsOf(last.ev, StartupOf(cls)) = 0
        /\ (~crashed /\ \A t \in Threads : scope[t] = <<>>) =>
             subsys[SubsystemOf(cls)].shutdowns = subsys[SubsystemOf(cls)].startups
        /\ \A s \in Subsystems \ {SubsystemOf(cls)} :
             subsys[s].startups = 0 /\ subsys[s].shutdowns = 0

\* ---- the claims about the owners, continued (Spec)

\* the accessors that return the raw value, and all the read operations
RawReads == {"Get", "conv", "arrow"}
ReadOps == RawReads \cup {"IsValid"}

C15_State ==
    last.op \in ReadOps =>
        /\ last.op \in RawReads => last.ret = <<last.old>>
        /\ w[last.i].val = last.old
        /\ last.ev = <<>>

C15_Step ==
    (last'.op \in ReadOps /\ last'.n = last.n + 1) =>
        /\ w' = w /\ mem' = mem /\ crashed' = crashed
        /\ last'.op \in RawReads => last'.ret = <<w[last'.i].val>>

\* C15: Get, the conversion operators and operator-> return the held raw
\* value (IsValid its verdict on it); every read access leaves the wrappers
\* and the resources as they were and calls no release action.
C15_BorrowLeavesOwnership == [](C15_State) /\ [][C15_Step]_vars

\* a read of a wrapper that holds a live resource: still held, not released
C15_Witness ==
    /\ last.op \in RawReads /\ last.old \in Res
    /\ last.ret = <<last.old>> /\ w[last.i].val = last.old
    /\ mem.heap[last.old] = "live" /\ mem.released[last.old] = 0

ComClasses == {"ScopedComPtr", "ScopedComQIPtr"}

\* the operations the claim lists
C16_Ops == {"ctor0", "ctor", "ctorQI", "assign", "assignQI", "Create", "addr", "fill", "dtor"}

\* the reference the wrapper held leaves it: the slot is overwritten, or the
\* wrapper is destroyed
ReferenceLeaves ==
    last.op \in {"assign", "assignQI", "fill", "dtor"} /\ last.old # Null

\* C16: a ScopedComPtr / ScopedComQIPtr releases each reference stored into it
\* exactly once: an operation (construction, operator=, Create, a fill of the
\* slot through operator&, destruction) calls Release exactly when the held
\* reference leaves the wrapper, once and on that reference, so that the
\* Release calls of a destroyed wrapper are as many as the references that
\* were stored into it.
C16_OneReleasePerStoredReference ==
    (cls \in ComClasses /\ last.op \in C16_Ops) =>
        RelCalls(last.ev) = IF ReferenceLeaves THEN <<Ev("Release", last.old)>> ELSE <<>>

\* ---- the claims about the guards, continued (GuardSpec)

\* the live guards of thread t on critical section c
GuardsOn(t, c) == {k \in DOMAIN scope[t] : scope[t][k].cs = c}

\* C17: with threads constructing ScopedCritSec on the same critical section,
\* a constructor returns only once the lock is acquired, the lock is held by
\* the guard's thread for as long as the guard lives, no two different threads
\* have a live guard on one critical section, and with every guard destroyed
\* the critical section is unowned, its enters and leaves balanced.
C17_LockHeldForLifetime ==
    cls = "ScopedCritSec" =>
        /\ last.op = "entered" => locks[last.argData].owner = last.i
        /\ \A t \in Threads : \A c \in CritSecs :
             GuardsOn(t, c) # {} =>
                /\ locks[c].owner = t
                /\ locks[c].count >= 1
                /\ \A u \in Threads \ {t} : GuardsOn(u, c) = {}
        /\ (\A t \in Threads : scope[t] = <<>>) =>
             \A c \in CritSecs :
                /\ locks[c].owner = 0 /\ locks[c].count = 0
                /\ locks[c].enters = locks[c].leaves

\* ---- the claims about the owners, continued (Spec)

\* C18: no use after release: a reassignment (Set, operator=, SetCopy) that
\* has released the value the wrapper held does not leave the wrapper holding
\* that value, and does not read its argument (str::Dup) after having released
\* it -- for every argument.
C18_NoUseAfterRelease ==
    (/\ cls \in {"ScopedMem", "ScopedPtr", "AutoFreeStr", "ScopedComPtr"}
     /\ last.op \in {"Set", "assign", "SetCopy"} /\ last.old \in Res) =>
        /\ ~crashed => w[last.i].val # last.old
        /\ \A k \in DOMAIN last.ev :
             last.ev[k].prim = "str::Dup" => last.ev[k].arg # last.old

\* the reference count of u as the caller hands it over (an object it has
\* just obtained comes with the caller's one reference)
RefsAtCall(u) == IF mem.heap[u] = "unalloc" THEN 1 ELSE mem.refs[u]

\* a query that succeeded on a source the caller has a reference on
QuerySucceeds ==
    /\ last'.op \in {"ctorQI", "assignQI"} /\ last'.n = last.n + 1
    /\ ~crashed' /\ last'.retB = <<TRUE>>
    /\ RefsAtCall(last'.arg) - (IF last'.old = last'.arg THEN 1 ELSE 0) >= 1

\* the query adds one reference to those the object has when it is made (that
\* is after operator= has released the one the wrapper held); none of the
\* others is consumed, and the wrapper holds the object
C19_Query ==
    QuerySucceeds =>
        /\ w'[last'.i].val = last'.arg
        /\ mem'.heap[last'.arg] = "live"
        /\ mem'.refs[last'.arg]
             = RefsAtCall(last'.arg) - (IF last'.old = last'.arg THEN 1 ELSE 0) + 1
        /\ Ev("QueryInterface", last'.arg) \in {last'.ev[k] : k \in DOMAIN last'.ev}

\* the destruction of the wrapper right after gives that one reference back:
\* the object lives on with the references it had before the query
C19_Destroy ==
    (/\ cls = "ScopedComQIPtr" /\ last.op \in {"ctorQI", "assignQI"}
     /\ last.retB = <<TRUE>> /\ ~crashed
     /\ w[last.i].val = last.arg /\ mem.heap[last.arg] = "live"
     /\ last'.op = "dtor" /\ last'.i = last.i /\ last'.n = last.n + 1) =>
        /\ last'.ev = <<Ev("Release", last.arg)>>
        /\ mem'.refs[last.arg] = mem.refs[last.arg] - 1
        /\ mem'.refs[last.arg] >= 1
        /\ mem'.heap[last.arg] = "live"
        /\ ~crashed'

\* C19: a successful QueryInterface in the constructor or in
\* operator=(IUnknown*) of ScopedComQIPtr takes one more reference on the
\* object, beside the caller's own, which is not consumed; the destruction of
\* the wrapper brings the reference count back to what it was before the query.
C19_QueryTakesOwnReference == [][C19_Query /\ C19_Destroy]_vars

\* constructed by a successful query on the caller's object and destructed:
\* one Release, and the object is live with the caller's one reference
C19_Witness ==
    /\ cls = "ScopedComQIPtr" /\ last.n = 2 /\ last.op = "dtor" /\ last.old \in Res
    /\ last.ev = <<Ev("Release", last.old)>>
    /\ mem.heap[last.old] = "live" /\ mem.refs[last.old] = 1

\* C20: IsValid returns false when the handle is NULL or INVALID_HANDLE_VALUE
\* and true for every other handle.
C20_IsValid ==
    (cls = "ScopedHandle" /\ last.op = "IsValid") =>
        /\ last.old \in {Null, INVALID_HANDLE_VALUE} => last.retB = <<FALSE>>
        /\ last.old \notin {Null, INVALID_HANDLE_VALUE} => last.retB = <<TRUE>>

\* IsValid has answered false on a wrapper that holds INVALID_HANDLE_VALUE
C20_Witness ==
    /\ cls = "ScopedHandle" /\ last.op = "IsValid"
    /\ last.old = INVALID_HANDLE_VALUE /\ last.retB = <<FALSE>>
    /\ w[last.i].val = INVALID_HANDLE_VALUE

====
